---- MODULE Spec2Model ----
(***************************************************************************)
(* Model of capstone.py, the CSV-based student performance analyzer:       *)
(* validate_mark, the per-row loop of process_rows, write_cleaned_csv,     *)
(* write_summary_csv and the part of main that drives them.                *)
(*                                                                         *)
(* Text is a sequence of one-character strings, so that str.strip(),       *)
(* str.lower(), float() and the sort key are computed, not assumed.        *)
(* A float is kept as the decimal it was parsed from (sign, mantissa,      *)
(* power of ten), or as nan / inf.                                         *)
(***************************************************************************)
EXTENDS Integers, Sequences, FiniteSets, TLC

VARIABLES pc, rows, cleaned, students, cleaned_out, summary_out, mark_str, vm_result

vars == <<pc, rows, cleaned, students, cleaned_out, summary_out, mark_str, vm_result>>

\* ---------------------------------------------------------------- bounds
\* Number of raw records main hands to process_rows.
MaxRows == 3
\* Length of the mark texts validate_mark is applied to on its own.
MaxMarkLen == 3

\* ------------------------------------------------------------------ text
\* Python's None (a tuple no text equals: every text is made of 1-char strings).
None == <<"None">>

Whitespace == {" "}

Digits == {"0", "1", "5"}

\* The characters the mark texts are built from.
MarkChars == {" ", "+", "-", ".", "_", "0", "1", "5", "e", "n", "a", "i", "f"}

RECURSIVE lstrip(_, _)
lstrip(s, chars) ==
    IF s = <<>> THEN s
    ELSE IF Head(s) \in chars THEN lstrip(Tail(s), chars) ELSE s

RECURSIVE rstrip(_, _)
rstrip(s, chars) ==
    IF s = <<>> THEN s
    ELSE IF s[Len(s)] \in chars THEN rstrip(SubSeq(s, 1, Len(s) - 1), chars) ELSE s

\* strip() forgotten: the text as received.
strip_Raw(s) == s

\* str.strip(): leading and trailing whitespace removed.
strip(s) == rstrip(lstrip(s, Whitespace), Whitespace)

\* Index of the first c in s, 0 when there is none.
Find(s, c) ==
    IF \E i \in 1..Len(s) : s[i] = c
    THEN CHOOSE i \in 1..Len(s) : s[i] = c /\ \A j \in 1..(i - 1) : s[j] # c
    ELSE 0

\* ----------------------------------------------------------------- float
RECURSIVE Pow10(_)
Pow10(n) == IF n = 0 THEN 1 ELSE 10 * Pow10(n - 1)

DigitVal(c) == CASE c = "0" -> 0 [] c = "1" -> 1 [] c = "5" -> 5

\* digitpart ::= digit (["_"] digit)*
IsDigitPart(s) ==
    /\ s # <<>>
    /\ \A i \in 1..Len(s) : s[i] \in Digits \cup {"_"}
    /\ s[1] \in Digits
    /\ s[Len(s)] \in Digits
    /\ \A i \in 1..(Len(s) - 1) : ~(s[i] = "_" /\ s[i + 1] = "_")

\* The digits of a digitpart, underscores dropped.
OnlyDigits(s) == SelectSeq(s, LAMBDA c : c \in Digits)

RECURSIVE DigitsValue(_)
DigitsValue(s) ==
    IF s = <<>> THEN 0
    ELSE 10 * DigitsValue(SubSeq(s, 1, Len(s) - 1)) + DigitVal(s[Len(s)])

NotANumber == [ok |-> FALSE, kind |-> "None", neg |-> FALSE, mant |-> 0, exp10 |-> 0]

\* [+-] digitpart, the text after the "e" of a float literal.
ParseExponent(s) ==
    LET signed == s # <<>> /\ Head(s) \in {"+", "-"}
        body   == IF signed THEN Tail(s) ELSE s
    IN  IF IsDigitPart(body)
        THEN [ok |-> TRUE,
              val |-> IF signed /\ Head(s) = "-"
                      THEN 0 - DigitsValue(OnlyDigits(body))
                      ELSE DigitsValue(OnlyDigits(body))]
        ELSE [ok |-> FALSE, val |-> 0]

\* digitpart ["." [digitpart]] | "." digitpart
ParseMantissa(s) ==
    LET dot == Find(s, ".")
        ip  == IF dot = 0 THEN s ELSE SubSeq(s, 1, dot - 1)
        fp  == IF dot = 0 THEN <<>> ELSE SubSeq(s, dot + 1, Len(s))
        ok  == \/ IsDigitPart(ip) /\ (fp = <<>> \/ IsDigitPart(fp))
               \/ ip = <<>> /\ dot # 0 /\ IsDigitPart(fp)
        fd  == OnlyDigits(fp)
    IN  IF ok
        THEN [ok |-> TRUE,
              mant |-> DigitsValue(OnlyDigits(ip)) * Pow10(Len(fd)) + DigitsValue(fd),
              frac |-> Len(fd)]
        ELSE [ok |-> FALSE, mant |-> 0, frac |-> 0]

\* float(s) for a stripped text s: ok = FALSE is ValueError.
ParseFloat(s) ==
    LET signed == s # <<>> /\ Head(s) \in {"+", "-"}
        neg    == signed /\ Head(s) = "-"
        body   == IF signed THEN Tail(s) ELSE s
        epos   == Find(body, "e")
        mp     == IF epos = 0 THEN body ELSE SubSeq(body, 1, epos - 1)
        m      == ParseMantissa(mp)
        e      == IF epos = 0 THEN [ok |-> TRUE, val |-> 0]
                  ELSE ParseExponent(SubSeq(body, epos + 1, Len(body)))
    IN  IF body = <<"n", "a", "n">>
        THEN [ok |-> TRUE, kind |-> "nan", neg |-> neg, mant |-> 0, exp10 |-> 0]
        ELSE IF body = <<"i", "n", "f">>
        THEN [ok |-> TRUE, kind |-> "inf", neg |-> neg, mant |-> 0, exp10 |-> 0]
        ELSE IF m.ok /\ e.ok
        THEN [ok |-> TRUE, kind |-> "fin", neg |-> neg, mant |-> m.mant,
              exp10 |-> e.val - m.frac]
        ELSE NotANumber

\* The interval taken open: 0 < val < 100.
InRange_Open(v) ==
    /\ v.kind = "fin"
    /\ v.mant # 0
    /\ ~v.neg
    /\ v.exp10 < 3
    /\ IF v.exp10 >= 0
       THEN v.mant * Pow10(v.exp10) < 100
       ELSE v.mant < 100 * Pow10(0 - v.exp10)

\* 0 <= val <= 100 on a float: false for nan and both infinities, true for -0.0.
InRange(v) ==
    /\ v.kind = "fin"
    /\ \/ v.mant = 0
       \/ /\ ~v.neg
          /\ v.exp10 < 3
          /\ IF v.exp10 >= 0
             THEN v.mant * Pow10(v.exp10) <= 100
             ELSE v.mant <= 100 * Pow10(0 - v.exp10)

NoValue == [kind |-> "None", neg |-> FALSE, mant |-> 0, exp10 |-> 0]

FloatOf(p) == [kind |-> p.kind, neg |-> p.neg, mant |-> p.mant, exp10 |-> p.exp10]

\* validate_mark: (is_valid, numeric_value_or_None, error_message).
validate_mark(m) ==
    IF m = None
    THEN [is_valid |-> FALSE, value |-> NoValue, error_msg |-> "Missing Marks"]
    ELSE LET s == strip(m)
             p == ParseFloat(s)
         IN  IF s = <<>>
             THEN [is_valid |-> FALSE, value |-> NoValue, error_msg |-> "Missing Marks"]
             ELSE IF ~p.ok
             THEN [is_valid |-> FALSE, value |-> NoValue, error_msg |-> "Invalid Marks"]
             ELSE IF ~InRange(p)
             THEN [is_valid |-> FALSE, value |-> NoValue,
                   error_msg |-> "Marks Out of Range"]
             ELSE [is_valid |-> TRUE, value |-> FloatOf(p), error_msg |-> ""]

\* ------------------------------------------- validate_mark called on its own
RECURSIVE TextsUpTo(_)
TextsUpTo(n) ==
    IF n = 0 THEN {<<>>}
    ELSE LET shorter == TextsUpTo(n - 1)
         IN  shorter \cup {Append(t, c) : t \in {u \in shorter : Len(u) = n - 1},
                                          c \in MarkChars}

MarkInputs == TextsUpTo(MaxMarkLen) \cup {None}

NoResult == [is_valid |-> FALSE, value |-> NoValue, error_msg |-> "not called"]

InitVM ==
    /\ pc = "vm_call"
    /\ mark_str \in MarkInputs
    /\ vm_result = NoResult
    /\ rows = <<>>
    /\ cleaned = <<>>
    /\ students = <<>>
    /\ cleaned_out = <<>>
    /\ summary_out = <<>>

ValidateMark ==
    /\ pc = "vm_call"
    /\ vm_result' = validate_mark(mark_str)
    /\ pc' = "vm_return"
    /\ UNCHANGED <<rows, cleaned, students, cleaned_out, summary_out, mark_str>>


\* ------------------------------------------------------------ process_rows
\* The raw records read_csv_rows may hand over: Name, Subject, Marks texts.
MarkTexts == {<<"1", "e">>, <<" ", "5">>}

SubjectTexts == {<<" ">>, <<"M">>}

RawRecords ==
    [Name : {<<" ">>, <<"A">>}, Subject : SubjectTexts, Marks : MarkTexts]
        \cup {[Name |-> <<>>, Subject |-> <<"M">>, Marks |-> <<"1", "0", "0">>],
              [Name |-> <<"A">>, Subject |-> <<"M">>, Marks |-> <<>>],
              [Name |-> <<"A">>, Subject |-> <<"M">>, Marks |-> <<"1", "0", "1">>],
              [Name |-> <<"A">>, Subject |-> <<"M">>, Marks |-> <<"1", "0", "0">>],
              [Name |-> <<"a", " ">>, Subject |-> <<"M">>, Marks |-> <<"1", "0", "0">>],
              [Name |-> <<"B">>, Subject |-> <<"M">>, Marks |-> <<" ", "5">>]}

\* An error text is the sequence of its reason phrases and "; " separators.
Text(msg) == IF msg = "" THEN <<>> ELSE <<msg>>

\* error.strip('; '): the separator characters removed from both ends.
StripSep(e) == rstrip(lstrip(e, {"; "}), {"; "})

\* students is a dict: its entries in insertion order.
HasKey(st, k) == \E i \in 1..Len(st) : st[i].key = k

\* Every row routed to the accumulator created last.
IndexOfKey_Last(st, k) == Len(st)

IndexOfKey(st, k) == CHOOSE i \in 1..Len(st) : st[i].key = k

\* students[k] = {...} in place of setdefault: an existing accumulator is reset.
setdefault_Reset(st, k) ==
    IF HasKey(st, k)
    THEN [i \in 1..Len(st) |->
            IF st[i].key = k
            THEN [key |-> k, valid_marks |-> <<>>, invalid_count |-> 0]
            ELSE st[i]]
    ELSE Append(st, [key |-> k, valid_marks |-> <<>>, invalid_count |-> 0])

setdefault(st, k) ==
    IF HasKey(st, k) THEN st
    ELSE Append(st, [key |-> k, valid_marks |-> <<>>, invalid_count |-> 0])

\* The test of row_status dropped: any valid mark is appended.
ContributesMark_AnyValid(is_valid, row_status) == is_valid

\* The branch of one loop iteration that appends the mark.
ContributesMark(is_valid, row_status) == is_valid /\ row_status = "Valid"

\* error_msg never copied into an empty error.
FinalError_Keep(error, error_msg) == error

\* The error text of a row that took the invalid branch.
FinalError(error, error_msg) == IF error = <<>> THEN Text(error_msg) ELSE error

\* One iteration of the loop of process_rows on record r.
process_row(r, cl, st) ==
    LET name    == strip(r.Name)
        subject == strip(r.Subject)
        marks   == r.Marks
        vm      == validate_mark(marks)
        status1 == IF name = <<>> THEN "Invalid" ELSE "Valid"
        error1  == IF name = <<>> THEN <<"Missing Name">> ELSE <<>>
        student_key == IF name = <<>> THEN <<>> ELSE name
        status2 == IF subject = <<>> THEN "Invalid" ELSE status1
        error2  == IF subject = <<>>
                   THEN IF status1 = "Valid" THEN <<"Missing Subject">>
                        ELSE StripSep(error1 \o <<"; ", "Missing Subject">>)
                   ELSE error1
        st1     == setdefault(st, student_key)
        i       == IndexOfKey(st1, student_key)
        good    == ContributesMark(vm.is_valid, status2)
        st2     == IF good
                   THEN [st1 EXCEPT ![i].valid_marks = Append(@, vm.value)]
                   ELSE [st1 EXCEPT ![i].invalid_count = @ + 1]
        error3  == IF good THEN error2 ELSE FinalError(error2, vm.error_msg)
        status3 == IF good THEN status2 ELSE "Invalid"
    IN  [cleaned  |-> Append(cl, [Name |-> name, Subject |-> subject, Marks |-> marks,
                                  Status |-> status3, Error |-> error3]),
         students |-> st2,
         key      |-> student_key]

\* ------------------------------------------------------- write_summary_csv
Lower(c) == CASE c = "A" -> "a" [] c = "B" -> "b" [] OTHER -> c

lower(s) == [i \in 1..Len(s) |-> Lower(s[i])]

\* Code points of the characters names are built from.
Ord(c) == CASE c = " " -> 32 [] c = "A" -> 65 [] c = "B" -> 66
            [] c = "a" -> 97 [] c = "b" -> 98

\* Python's < on str.
RECURSIVE StrLess(_, _)
StrLess(a, b) ==
    IF b = <<>> THEN FALSE
    ELSE IF a = <<>> THEN TRUE
    ELSE IF Head(a) = Head(b) THEN StrLess(Tail(a), Tail(b))
    ELSE Ord(Head(a)) < Ord(Head(b))

\* The sort key without .lower().
SortKey_CaseSensitive(entry) == entry.key

\* key=lambda x: (x[0] or '').lower()
SortKey(entry) == lower(entry.key)

\* x placed after every element whose key is not greater (sorted() is stable).
RECURSIVE InsertSorted(_, _)
InsertSorted(x, s) ==
    IF s = <<>> THEN <<x>>
    ELSE IF StrLess(SortKey(x), SortKey(Head(s))) THEN <<x>> \o s
    ELSE <<Head(s)>> \o InsertSorted(x, Tail(s))

RECURSIVE sorted(_)
sorted(s) ==
    IF s = <<>> THEN <<>>
    ELSE InsertSorted(s[Len(s)], sorted(SubSeq(s, 1, Len(s) - 1)))

\* The least power of ten among the non-zero marks, at most 0.
RECURSIVE MinExp(_)
MinExp(ms) ==
    IF ms = <<>> THEN 0
    ELSE LET rest == MinExp(Tail(ms))
             v    == Head(ms)
         IN  IF v.mant # 0 /\ v.exp10 < rest THEN v.exp10 ELSE rest

\* sum(valid_marks) in units of 10^e.
RECURSIVE SumScaled(_, _)
SumScaled(ms, e) ==
    IF ms = <<>> THEN 0
    ELSE LET v == Head(ms)
         IN  (IF v.mant = 0 THEN 0
              ELSE IF v.neg THEN 0 - v.mant * Pow10(v.exp10 - e)
              ELSE v.mant * Pow10(v.exp10 - e)) + SumScaled(Tail(ms), e)

\* The quotient truncated, not rounded.
RoundHalfEven_Trunc(num, den) == num \div den

\* num / den rounded to an integer, ties to even; num >= 0, den > 0.
RoundHalfEven(num, den) ==
    LET q == num \div den
        r == num % den
    IN  IF 2 * r < den THEN q
        ELSE IF 2 * r > den THEN q + 1
        ELSE IF q % 2 = 0 THEN q ELSE q + 1

\* sum(valid_marks) / len(valid_marks) in hundredths, as f"{avg:.2f}" rounds it.
\* Exact where the float sum is (integers and halves, as the marks here are).
AvgHundredths(ms) ==
    LET e == MinExp(ms)
        s == SumScaled(ms, e)
    IN  IF e + 2 >= 0 THEN RoundHalfEven(s * Pow10(e + 2), Len(ms))
        ELSE RoundHalfEven(s, Len(ms) * Pow10(0 - e - 2))

\* f"{avg:.2f}": the digits before and after the point.
AvgStr(ms) ==
    [text |-> "%.2f", whole |-> AvgHundredths(ms) \div 100,
     frac |-> AvgHundredths(ms) % 100]

NA == [text |-> "N/A", whole |-> 0, frac |-> 0]

\* invalid_count ignored: never Partial.
SummaryStatus_NoPartial(valid_marks, invalid_count) ==
    IF valid_marks # <<>> THEN "Valid" ELSE "Invalid"

\* The status of one accumulator.
SummaryStatus(valid_marks, invalid_count) ==
    IF valid_marks # <<>>
    THEN IF invalid_count # 0 THEN "Partial" ELSE "Valid"
    ELSE "Invalid"

SummaryRow(entry) ==
    [Name |-> entry.key,
     AverageMarks |-> IF entry.valid_marks # <<>> THEN AvgStr(entry.valid_marks) ELSE NA,
     Status |-> SummaryStatus(entry.valid_marks, entry.invalid_count)]

\* The rows write_summary_csv writes, in order.
SummaryRows(st) == LET o == sorted(st) IN [i \in 1..Len(o) |-> SummaryRow(o[i])]

\* -------------------------------------------------------------------- main
Init ==
    /\ pc = "process_rows"
    /\ rows = <<>>
    /\ cleaned = <<>>
    /\ students = <<>>
    /\ cleaned_out = <<>>
    /\ summary_out = <<>>
    /\ mark_str = None
    /\ vm_result = NoResult

\* main: "No rows to process." and return 0, nothing written.
NoRows ==
    /\ pc = "process_rows"
    /\ rows = <<>>
    /\ pc' = "no_rows"
    /\ UNCHANGED <<rows, cleaned, students, cleaned_out, summary_out, mark_str, vm_result>>

\* The next record of the input goes through one iteration of the loop.
ProcessRow ==
    /\ pc = "process_rows"
    /\ Len(rows) < MaxRows
    /\ \E r \in RawRecords :
          LET res == process_row(r, cleaned, students)
          IN  /\ rows' = Append(rows, r)
              /\ cleaned' = res.cleaned
              /\ students' = res.students
    /\ UNCHANGED <<pc, cleaned_out, summary_out, mark_str, vm_result>>

\* The input is exhausted: process_rows returns (cleaned, students).
ReturnRows ==
    /\ pc = "process_rows"
    /\ rows # <<>>
    /\ pc' = "write_cleaned"
    /\ UNCHANGED <<rows, cleaned, students, cleaned_out, summary_out, mark_str, vm_result>>

WriteCleaned ==
    /\ pc = "write_cleaned"
    /\ cleaned_out' = cleaned
    /\ pc' = "write_summary"
    /\ UNCHANGED <<rows, cleaned, students, summary_out, mark_str, vm_result>>

WriteSummary ==
    /\ pc = "write_summary"
    /\ summary_out' = SummaryRows(students)
    /\ pc' = "done"
    /\ UNCHANGED <<rows, cleaned, students, cleaned_out, mark_str, vm_result>>

Next == NoRows \/ ProcessRow \/ ReturnRows \/ WriteCleaned \/ WriteSummary

Spec == Init /\ [][Next]_vars

\* main, or validate_mark called on its own with any mark text.
SpecAll == (Init \/ InitVM) /\ [][Next \/ ValidateMark]_vars

\* ================================================================== claims
\* What the claims speak of, computed from the input rows alone.
\* s without its leading and trailing whitespace.
Trimmed(s) ==
    LET inked == {i \in 1..Len(s) : s[i] \notin Whitespace}
    IN  IF inked = {} THEN <<>>
        ELSE SubSeq(s, CHOOSE i \in inked : \A j \in inked : i <= j,
                       CHOOSE i \in inked : \A j \in inked : j <= i)

NameOf(r) == Trimmed(r.Name)

SubjectOf(r) == Trimmed(r.Subject)

MarkValid(r) == validate_mark(r.Marks).is_valid

RowOK(r) == NameOf(r) # <<>> /\ SubjectOf(r) # <<>> /\ MarkValid(r)

Keys == {students[i].key : i \in 1..Len(students)}

Entry(k) == students[CHOOSE i \in 1..Len(students) : students[i].key = k]

Total(st, k) ==
    IF \E i \in 1..Len(st) : st[i].key = k
    THEN LET e == st[CHOOSE i \in 1..Len(st) : st[i].key = k]
         IN  Len(e.valid_marks) + e.invalid_count
    ELSE 0

RECURSIVE Join(_)
Join(reasons) ==
    IF Len(reasons) <= 1 THEN reasons
    ELSE <<Head(reasons), "; ">> \o Join(Tail(reasons))

AllReasons(r) ==
    (IF NameOf(r) = <<>> THEN <<"Missing Name">> ELSE <<>>)
        \o (IF SubjectOf(r) = <<>> THEN <<"Missing Subject">> ELSE <<>>)
        \o Text(validate_mark(r.Marks).error_msg)

\* C1: the Error text of every classified row is the list of all the reasons that
\* apply to its record (Missing Name, Missing Subject, the marks reason, in that
\* order) joined with "; ", and is empty when the row is Valid.
C1_ErrorListsEveryReason ==
    /\ Len(cleaned) = Len(rows)
    /\ \A i \in 1..Len(cleaned) :
          /\ cleaned[i].Error = Join(AllReasons(rows[i]))
          /\ cleaned[i].Status = "Valid" => cleaned[i].Error = <<>>

\* The marks of the rows of key k that are valid in every field, in input order.
RECURSIVE ExpectedMarks(_, _)
ExpectedMarks(rs, k) ==
    IF rs = <<>> THEN <<>>
    ELSE (IF NameOf(Head(rs)) = k /\ RowOK(Head(rs))
          THEN <<validate_mark(Head(rs).Marks).value>> ELSE <<>>)
             \o ExpectedMarks(Tail(rs), k)

\* 0 <= v <= 100 for a decimal v = mant * 10^exp10.
WithinZeroHundred(v) ==
    /\ v.kind = "fin"
    /\ v.mant = 0 \/ (~v.neg /\ v.exp10 <= 2)
    /\ v.mant # 0 /\ v.exp10 >= 0 => v.mant * Pow10(v.exp10) <= 100
    /\ v.mant # 0 /\ v.exp10 < 0 => v.mant <= 100 * Pow10(0 - v.exp10)

\* C2: a row's mark is in an accumulator's valid_marks exactly when validate_mark
\* found it valid and the trimmed name and subject are both non-empty; so every
\* accumulated mark lies in [0, 100] and comes from a row whose Status is Valid.
C2_MarkAppendedIffRowValid ==
    /\ \A k \in Keys : Entry(k).valid_marks = ExpectedMarks(rows, k)
    /\ \A i \in 1..Len(rows) :
          IF RowOK(rows[i])
          THEN NameOf(rows[i]) \in Keys /\ cleaned[i].Status = "Valid"
          ELSE cleaned[i].Status # "Valid"
    /\ \A k \in Keys : \A j \in 1..Len(Entry(k).valid_marks) :
          WithinZeroHundred(Entry(k).valid_marks[j])

C2_Witness ==
    \E k \in Keys :
       /\ Len(Entry(k).valid_marks) = 2
       /\ \E i \in 1..Len(rows) :
             NameOf(rows[i]) = k /\ MarkValid(rows[i]) /\ SubjectOf(rows[i]) = <<>>

CountRows(k, status) ==
    Cardinality({i \in 1..Len(cleaned) : cleaned[i].Name = k /\ cleaned[i].Status = status})

\* C3: after any prefix of the input, the invalid_count of the accumulator of key k
\* is the number of classified rows of key k whose Status is Invalid, and the
\* length of its valid_marks the number of those whose Status is Valid.
C3_CountsMatchClassifiedRows ==
    /\ \A i \in 1..Len(cleaned) : cleaned[i].Name \in Keys
    /\ \A k \in Keys :
          /\ Entry(k).invalid_count = CountRows(k, "Invalid")
          /\ Len(Entry(k).valid_marks) = CountRows(k, "Valid")

C3_Witness ==
    \E k \in Keys : Entry(k).invalid_count = 2 /\ Len(Entry(k).valid_marks) = 1

\* C4: one record gives one classified row, appended in input order, and touches
\* one accumulator only: that of the row's key, created if new, whose
\* len(valid_marks) + invalid_count grows by exactly 1; every other accumulator is
\* unchanged and none is removed.  No other step touches cleaned or students.
C4_OneRowOneAccumulator ==
    [][ IF rows' # rows
        THEN LET r == rows'[Len(rows')]
                 k == NameOf(r)
             IN  /\ Len(cleaned') = Len(rows')
                 /\ SubSeq(cleaned', 1, Len(cleaned)) = cleaned
                 /\ Len(cleaned') = Len(cleaned) + 1
                 /\ cleaned'[Len(cleaned')].Name = k
                 /\ cleaned'[Len(cleaned')].Subject = SubjectOf(r)
                 /\ cleaned'[Len(cleaned')].Marks = r.Marks
                 /\ Len(students') = IF k \in Keys THEN Len(students)
                                     ELSE Len(students) + 1
                 /\ \A i \in 1..Len(students) :
                       /\ students'[i].key = students[i].key
                       /\ students[i].key # k => students'[i] = students[i]
                 /\ \A i, j \in 1..Len(students') :
                       students'[i].key = students'[j].key => i = j
                 /\ \E i \in 1..Len(students') : students'[i].key = k
                 /\ Total(students', k) = Total(students, k) + 1
        ELSE cleaned' = cleaned /\ students' = students ]_vars

C4_Witness ==
    /\ Len(cleaned) = 3
    /\ Len(students) = 2
    /\ Total(students, students[2].key) = 2

\* C5: the summary Status of an accumulator is Invalid iff valid_marks is empty
\* (and then AverageMarks is N/A), Valid iff valid_marks is non-empty and
\* invalid_count = 0, Partial iff valid_marks is non-empty and invalid_count > 0.
C5_SummaryStatus ==
    pc = "done" =>
       \A j \in 1..Len(summary_out) :
          LET row == summary_out[j]
              acc == Entry(row.Name)
          IN  /\ row.Name \in Keys
              /\ row.Status \in {"Valid", "Partial", "Invalid"}
              /\ row.Status = "Invalid" <=> acc.valid_marks = <<>>
              /\ row.AverageMarks = NA <=> acc.valid_marks = <<>>
              /\ row.Status = "Valid" <=>
                    (acc.valid_marks # <<>> /\ acc.invalid_count = 0)
              /\ row.Status = "Partial" <=>
                    (acc.valid_marks # <<>> /\ acc.invalid_count > 0)

C5_Witness ==
    /\ pc = "done"
    /\ \E i, j \in 1..Len(summary_out) :
          /\ summary_out[i].Status = "Partial"
          /\ Entry(summary_out[i].Name).invalid_count = 1
          /\ summary_out[j].Status = "Invalid"
          /\ summary_out[j].AverageMarks = NA

NamelessRows == {i \in 1..Len(rows) : NameOf(rows[i]) = <<>>}

\* C6: a record whose name is empty after trimming is keyed under the empty
\* string, is Invalid with "Missing Name" in its Error, contributes no mark, and
\* adds 1 to the invalid_count of the "" accumulator.
C6_MissingName ==
    /\ \A i \in NamelessRows :
          /\ cleaned[i].Name = <<>>
          /\ cleaned[i].Status = "Invalid"
          /\ \E t \in 1..Len(cleaned[i].Error) : cleaned[i].Error[t] = "Missing Name"
    /\ NamelessRows # {} =>
          /\ <<>> \in Keys
          /\ Entry(<<>>).valid_marks = <<>>
          /\ Entry(<<>>).invalid_count = Cardinality(NamelessRows)
    /\ <<>> \in Keys => NamelessRows # {}

C6_Witness ==
    /\ \E i \in NamelessRows : rows[i].Name = <<" ">> /\ RowOK([rows[i] EXCEPT !.Name = <<"A">>])
    /\ \E i \in NamelessRows : rows[i].Name = <<>>
    /\ Cardinality(NamelessRows) = 3

\* The mark text m holds a number of [0, 100].
InsideText(m) ==
    /\ Trimmed(m) # <<>>
    /\ ParseFloat(Trimmed(m)).ok
    /\ WithinZeroHundred(ParseFloat(Trimmed(m)))

\* C7: validate_mark gives each mark text one outcome, in this precedence: absent
\* or empty after trimming -> Missing Marks; else not a number -> Invalid Marks;
\* else outside [0, 100] -> Marks Out of Range; else valid with the parsed value
\* and no reason.  0 and 100 are valid, and no accumulator holds a mark that is
\* outside [0, 100] or more marks than its key has rows with a mark inside it.
C7_ValidateMark ==
    /\ \A k \in Keys :
          /\ \A j \in 1..Len(Entry(k).valid_marks) :
                WithinZeroHundred(Entry(k).valid_marks[j])
          /\ Len(Entry(k).valid_marks) <=
                Cardinality({i \in 1..Len(rows) :
                                NameOf(rows[i]) = k /\ InsideText(rows[i].Marks)})
    /\ pc = "vm_return" =>
       LET absent   == mark_str = None \/ Trimmed(mark_str) = <<>>
           p        == ParseFloat(Trimmed(mark_str))
           inside   == p.kind = "fin" /\ WithinZeroHundred(p)
           rejected(msg) == vm_result = [is_valid |-> FALSE, value |-> NoValue,
                                         error_msg |-> msg]
       IN  /\ absent => rejected("Missing Marks")
           /\ ~absent /\ ~p.ok => rejected("Invalid Marks")
           /\ ~absent /\ p.ok /\ ~inside => rejected("Marks Out of Range")
           /\ ~absent /\ p.ok /\ inside =>
                 vm_result = [is_valid |-> TRUE, value |-> FloatOf(p), error_msg |-> ""]
           /\ mark_str \in {<<"0">>, <<"1", "0", "0">>} => vm_result.is_valid
           /\ mark_str \in {<<"1", "0", "1">>, <<"-", "1">>, <<"n", "a", "n">>,
                           <<"i", "n", "f">>, <<"1", "e", "5">>} =>
                 vm_result.error_msg = "Marks Out of Range"
           /\ mark_str \in {None, <<>>, <<" ">>, <<" ", " ">>} =>
                 vm_result.error_msg = "Missing Marks"
           /\ mark_str \in {<<"a">>, <<"1", " ", "1">>, <<"1", "e">>, <<".">>,
                           <<"-">>, <<"1", "_">>} =>
                 vm_result.error_msg = "Invalid Marks"

C7_Witness ==
    /\ pc = "vm_return"
    /\ mark_str = <<"1", "0", "0">>
    /\ vm_result.is_valid
    /\ vm_result.value.mant = 100

\* a <= b in the case-insensitive order of keys.
LowerLeq(a, b) == ~StrLess(lower(b), lower(a))

Position(k) == CHOOSE i \in 1..Len(students) : students[i].key = k

\* C8: the summary has one row per distinct key, ordered by the lower-cased key
\* (so "" first); keys equal but for case stay separate rows, in the order in
\* which their accumulators were created.
C8_SummaryOrder ==
    pc = "done" =>
       /\ Len(summary_out) = Cardinality(Keys)
       /\ {summary_out[j].Name : j \in 1..Len(summary_out)} = Keys
       /\ \A i, j \in 1..Len(summary_out) :
             i < j =>
                /\ summary_out[i].Name # summary_out[j].Name
                /\ LowerLeq(summary_out[i].Name, summary_out[j].Name)
                /\ lower(summary_out[i].Name) = lower(summary_out[j].Name) =>
                      Position(summary_out[i].Name) < Position(summary_out[j].Name)
       /\ <<>> \in Keys => summary_out[1].Name = <<>>

C8_Witness ==
    /\ pc = "done"
    /\ Len(summary_out) = 3
    /\ summary_out[1].Name = <<"a">>
    /\ summary_out[2].Name = <<"A">>
    /\ summary_out[3].Name = <<"B">>
    /\ students[1].key = <<"B">>

\* process_rows on a whole input.
RECURSIVE Fold(_, _, _)
Fold(rs, cl, st) ==
    IF rs = <<>> THEN [cleaned |-> cl, students |-> st]
    ELSE LET res == process_row(Head(rs), cl, st)
         IN  Fold(Tail(rs), res.cleaned, res.students)

SummaryOf(rs) ==
    LET out == SummaryRows(Fold(rs, <<>>, <<>>).students)
    IN  {out[j] : j \in 1..Len(out)}

\* rs with its rows i and j exchanged.  Every reordering of an input is a chain
\* of such exchanges, and each input of the chain is an input checked here.
Exchanged(rs, i, j) ==
    [n \in 1..Len(rs) |-> IF n = i THEN rs[j] ELSE IF n = j THEN rs[i] ELSE rs[n]]

\* The marks, as integers, of the Valid classified rows of key k.
ValidRowsOf(k) ==
    {i \in 1..Len(cleaned) : cleaned[i].Name = k /\ cleaned[i].Status = "Valid"}

MarkOfRow(i) ==
    LET v == validate_mark(cleaned[i].Marks).value IN v.mant * Pow10(v.exp10)

RECURSIVE SumOver(_)
SumOver(S) ==
    IF S = {} THEN 0
    ELSE LET i == CHOOSE x \in S : TRUE IN MarkOfRow(i) + SumOver(S \ {i})

\* C9: AverageMarks of a key is the mean of the marks of exactly its Valid rows,
\* to two decimals (within half a hundredth), N/A when there is none; and the
\* input with any two of its rows exchanged, hence in any order, gives every key
\* the same AverageMarks and Status.
C9_AverageIsMeanOfValidRows ==
    pc = "done" =>
       /\ \A j \in 1..Len(summary_out) :
             LET row == summary_out[j]
                 V   == ValidRowsOf(row.Name)
                 h   == 100 * row.AverageMarks.whole + row.AverageMarks.frac
             IN  IF V = {} THEN row.AverageMarks = NA
                 ELSE /\ row.AverageMarks.text = "%.2f"
                      /\ row.AverageMarks.frac \in 0..99
                      /\ 2 * (100 * SumOver(V) - h * Cardinality(V)) <= Cardinality(V)
                      /\ 2 * (h * Cardinality(V) - 100 * SumOver(V)) <= Cardinality(V)
       /\ \A i, j \in 1..Len(rows) :
             i < j => SummaryOf(Exchanged(rows, i, j))
                         = {summary_out[n] : n \in 1..Len(summary_out)}

C9_Witness ==
    /\ pc = "done"
    /\ \E j \in 1..Len(summary_out) :
          /\ summary_out[j].AverageMarks = [text |-> "%.2f", whole |-> 36, frac |-> 67]
          /\ summary_out[j].Status = "Valid"
    /\ rows[1].Marks # rows[2].Marks

\* C10: a row's Status is Valid iff its trimmed name and subject are non-empty and
\* its marks are valid, else Invalid; and it is Invalid exactly when its Error
\* text is non-empty.
C10_StatusAndError ==
    /\ Len(cleaned) = Len(rows)
    /\ \A i \in 1..Len(cleaned) :
          /\ cleaned[i].Status \in {"Valid", "Invalid"}
          /\ cleaned[i].Status = "Valid" <=> RowOK(rows[i])
          /\ cleaned[i].Status = "Invalid" <=> cleaned[i].Error # <<>>

C10_Witness ==
    /\ \E i \in 1..Len(cleaned) :
          cleaned[i].Status = "Invalid" /\ cleaned[i].Error = <<"Marks Out of Range">>
    /\ \E i \in 1..Len(cleaned) :
          cleaned[i].Status = "Invalid" /\ cleaned[i].Error = <<"Missing Subject">>
              /\ MarkValid(rows[i])
    /\ \E i \in 1..Len(cleaned) : cleaned[i].Status = "Valid"

====
